---- MODULE Spec2Model ----
(***************************************************************************)
(* Model of src/Auto_Electronics_Text_Mining.ipynb: a Jupyter notebook     *)
(* that loads a zip archive of newsgroup posts twice, vectorizes it with   *)
(* two tokenizers (without / with stemming), and for each configuration    *)
(* runs TF-IDF -> truncated SVD + normalizer -> train/test split ->        *)
(* random forest -> classificationSummary.                                 *)
(*                                                                         *)
(* Text is a sequence of one-character strings, raw file content a         *)
(* sequence of byte values.  The kernel namespace is one variable per      *)
(* notebook name plus the set `names` of the names currently bound.        *)
(***************************************************************************)
EXTENDS Integers, Sequences, FiniteSets, TLC

VARIABLES
    \* --- the environment ---
    archive,            \* the entries of AutoAndElectronics.zip, in order
    \* --- the kernel ---
    pc,                 \* "idle", or the load cell whose loop is running
    names,              \* the notebook names currently bound
    ns_corpus, ns_label, ns_pos, ns_preprocessor, ns_preprocessedText,
    corpus, label, pos, preprocessor, preprocessedText,
    tfidf, svd, lsa_tfidf, split_args,
    Xtrain, Xtest, ytrain, ytest, rf_classifier,
    ns_printed, printed,        \* what the two classification cells last printed
    \* --- direct calls of the two tokenizer objects ---
    tok_doc,            \* the str handed to the tokenizers
    tok_simple,         \* SimpleTokenizer()(tok_doc)
    tok_lemma,          \* LemmaTokenizer()(tok_doc)
    tok_done            \* whether the two calls have returned

tokvars == <<tok_doc, tok_simple, tok_lemma, tok_done>>

nsvars == <<ns_corpus, ns_label, ns_pos, ns_preprocessor, ns_preprocessedText>>

stemvars == <<corpus, label, pos, preprocessor, preprocessedText>>

clfvars == <<tfidf, svd, lsa_tfidf, split_args, Xtrain, Xtest, ytrain, ytest,
             rf_classifier>>

vars == <<archive, pc, names, nsvars, stemvars, clfvars, ns_printed, printed, tokvars>>

-----------------------------------------------------------------------------
(* Bounds of the model *)

\* longest archive (number of zip entries) the model loads
MaxEntries == 4
\* most words in a text handed directly to the tokenizers
MaxDocWords == 3

-----------------------------------------------------------------------------
(* Characters and str methods *)

UpperSeq == <<"A","B","C","D","E","F","G","H","I","J","K","L","M",
              "N","O","P","Q","R","S","T","U","V","W","X","Y","Z">>
LowerSeq == <<"a","b","c","d","e","f","g","h","i","j","k","l","m",
              "n","o","p","q","r","s","t","u","v","w","x","y","z">>
DigitSeq == <<"0","1","2","3","4","5","6","7","8","9">>

Range(s) == {s[i] : i \in DOMAIN s}

Uppercase == Range(UpperSeq)
Lowercase == Range(LowerSeq)
Letters == Uppercase \cup Lowercase
Whitespace == {" ", "\n"}
Punctuation == {",", "!", "?", ";"}

\* str.isalpha(): non-empty and every character is a letter
isalpha(t) == Len(t) > 0 /\ \A i \in 1..Len(t) : t[i] \in Letters

lower_char(c) ==
    IF c \in Uppercase
    THEN LowerSeq[CHOOSE i \in 1..Len(UpperSeq) : UpperSeq[i] = c]
    ELSE c

\* str.lower()
lower(t) == [i \in 1..Len(t) |-> lower_char(t[i])]

\* bytes.decode('latin1'): every byte value is the code point of one
\* character; the model's texts use space, newline, comma, digits, letters
latin1_char(b) ==
    IF b \in 65..90 THEN UpperSeq[b - 64]
    ELSE IF b \in 97..122 THEN LowerSeq[b - 96]
    ELSE IF b \in 48..57 THEN DigitSeq[b - 47]
    ELSE IF b = 32 THEN " "
    ELSE IF b = 10 THEN "\n"
    ELSE IF b = 44 THEN ","
    ELSE "?"

decode(raw) == [i \in 1..Len(raw) |-> latin1_char(raw[i])]

endswith(t, suffix) ==
    /\ Len(suffix) <= Len(t)
    /\ SubSeq(t, Len(t) - Len(suffix) + 1, Len(t)) = suffix

\* `sub in s` for strings: sub occurs as a contiguous slice of s
contains(s, sub) ==
    \E k \in 0..(Len(s) - Len(sub)) : SubSeq(s, k + 1, k + Len(sub)) = sub

-----------------------------------------------------------------------------
(* nltk.word_tokenize, on texts of letters, digits, whitespace and commas:  *)
(* whitespace separates tokens and a punctuation mark is a token of its    *)
(* own; letters and digits that touch stay in one token.                   *)

\* a character that belongs to a word: neither whitespace nor punctuation
in_word(c) == c \notin Whitespace /\ c \notin Punctuation

\* the positions where a token begins: a punctuation mark, or a word
\* character that follows none
token_starts(text) ==
    { i \in 1..Len(text) :
        \/ text[i] \in Punctuation
        \/ in_word(text[i]) /\ (i = 1 \/ ~in_word(text[i - 1])) }

\* the token that begins at position i
token_at(text, i) ==
    IF text[i] \in Punctuation THEN <<text[i]>>
    ELSE LET last == CHOOSE j \in i..Len(text) :
                        /\ \A r \in i..j : in_word(text[r])
                        /\ (j = Len(text) \/ ~in_word(text[j + 1]))
         IN  SubSeq(text, i, last)

word_tokenize(text) ==
    LET starts == token_starts(text) IN
    [k \in 1..Cardinality(starts) |->
        token_at(text, CHOOSE i \in starts :
                           Cardinality({j \in starts : j < i}) = k - 1)]

-----------------------------------------------------------------------------
(* sklearn's ENGLISH_STOP_WORDS: the members that the words of the model's *)
(* texts, their lower-case forms or their stems can spell.                 *)

stopWords ==
    { <<"t","h","e">>, <<"a","n","d">>, <<"s","y","s","t","e","m">> }

-----------------------------------------------------------------------------
(* nltk EnglishStemmer.stem: lower-cases the word, returns words of at     *)
(* most two letters as they are, then strips suffixes.  Step 1a is         *)
(* computed as the stemmer computes it; steps 0 and 1b to 5 change no word *)
(* of the model's texts (none ends in one of their suffixes).              *)

Vowels == {"a", "e", "i", "o", "u", "y"}

drop_last(w, n) == SubSeq(w, 1, Len(w) - n)

step1a(w) ==
    IF endswith(w, <<"s","s","e","s">>) THEN drop_last(w, 2)
    ELSE IF endswith(w, <<"i","e","d">>) \/ endswith(w, <<"i","e","s">>)
         THEN IF Len(w) - 3 > 1 THEN drop_last(w, 2) ELSE drop_last(w, 1)
    ELSE IF endswith(w, <<"u","s">>) \/ endswith(w, <<"s","s">>) THEN w
    ELSE IF endswith(w, <<"s">>)
         THEN IF \E i \in 1..(Len(w) - 2) : w[i] \in Vowels
              THEN drop_last(w, 1) ELSE w
    ELSE w

stem(t) ==
    LET w == lower(t) IN
    IF Len(w) <= 2 THEN w ELSE step1a(w)

-----------------------------------------------------------------------------
(* The two tokenizer objects *)

map_stem(tokens) == [i \in 1..Len(tokens) |-> stem(tokens[i])]

\* SimpleTokenizer.__call__
simple_keeps(t) == isalpha(t) /\ lower(t) \notin stopWords

SimpleTokenizer(doc) == SelectSeq(word_tokenize(doc), simple_keeps)

\* LemmaTokenizer.__call__
lemma_keeps(t) == isalpha(t) /\ t \notin stopWords

LemmaTokenizer(doc) == map_stem(SelectSeq(word_tokenize(doc), lemma_keeps))

-----------------------------------------------------------------------------
(* Hyperparameters written in the two classification cells *)

\* TruncatedSVD(10, ...): the number of concepts
NsNComponents == 10
NComponents == 10
\* TruncatedSVD(..., random_state=10)
NsSvdSeed == 10
SvdSeed == 10
\* train_test_split(..., test_size=0.4, ...), in percent
NsTestSize == 40
TestSize == 40
\* train_test_split(..., random_state=10)
NsSplitSeed == 10
SplitSeed == 10
\* RandomForestClassifier(n_estimators=100, ...)
NsNEstimators == 100
NEstimators == 100
\* RandomForestClassifier(..., random_state=5)
NsRfSeed == 5
RfSeed == 5
\* 'Confusion Matrix (Accuracy {:.4f})': the printed accuracy counts 1/10000
AccuracyScale == 10000

-----------------------------------------------------------------------------
(* The archive: ZipFile('AutoAndElectronics.zip').infolist() *)

\* the category marker of line 82 / 212
Marker == <<"r","e","c",".","a","u","t","o","s">>

\* "x/rec.autos/": a directory whose name holds the marker
DirAutos ==
    [filename |-> <<"x","/","r","e","c",".","a","u","t","o","s","/">>,
     content |-> <<>>]

\* "x/rec.autos/a1": "The cars, car amps volts chips tanks bolts fuels pumps
\* gears belts lamps"
FileAutos ==
    [filename |-> <<"x","/","r","e","c",".","a","u","t","o","s","/","a","1">>,
     content |-> <<84, 104, 101, 32, 99, 97, 114, 115, 44, 32, 99, 97, 114,
                   32, 97, 109, 112, 115, 32, 118, 111, 108, 116, 115, 32,
                   99, 104, 105, 112, 115, 32, 116, 97, 110, 107, 115, 32,
                   98, 111, 108, 116, 115, 32, 102, 117, 101, 108, 115, 32,
                   112, 117, 109, 112, 115, 32, 103, 101, 97, 114, 115, 32,
                   98, 101, 108, 116, 115, 32, 108, 97, 109, 112, 115>>]

\* "autos/rec.e2" (both words of the marker, but not the marker):
\* "The systems and 42 x86"
FileOther ==
    [filename |-> <<"a","u","t","o","s","/","r","e","c",".","e","2">>,
     content |-> <<84, 104, 101, 32, 115, 121, 115, 116, 101, 109, 115, 32,
                   97, 110, 100, 32, 52, 50, 32, 120, 56, 54>>]

Entries == {DirAutos, FileAutos, FileOther}

Archives == UNION { [1..n -> Entries] : n \in 0..MaxEntries }

\* ZipInfo.is_dir(): the name ends with a slash
is_dir(info) == endswith(info.filename, <<"/">>)

\* a variant of line 82 that looks for the marker at the start of the name
ns_label_of_prefix(info) ==
    IF SubSeq(info.filename, 1, Len(Marker)) = Marker THEN 1 ELSE 0

\* line 82: 1 if 'rec.autos' in info.filename else 0
ns_label_of(info) == IF contains(info.filename, Marker) THEN 1 ELSE 0

\* a variant of line 212 with the two categories swapped
label_of_swapped(info) == IF contains(info.filename, Marker) THEN 0 ELSE 1

\* line 212: 1 if 'rec.autos' in info.filename else 0
label_of(info) == IF contains(info.filename, Marker) THEN 1 ELSE 0

\* rawData.read(info)
read(info) == info.content

-----------------------------------------------------------------------------
(* CountVectorizer(tokenizer=..., encoding='latin1').fit_transform:        *)
(* each raw document is decoded, lower-cased (lowercase=True is the        *)
(* default) and handed to the tokenizer; the vocabulary is the set of the  *)
(* tokens seen and row i counts each term in document i.  An empty         *)
(* vocabulary raises ValueError.                                           *)

\* a variant with lowercase=False
preprocess_cased(raw) == decode(raw)

preprocess(raw) == lower(decode(raw))

ns_analyze(raw) == SimpleTokenizer(preprocess(raw))

analyze(raw) == LemmaTokenizer(preprocess(raw))

count(t, tokens) == Cardinality({i \in 1..Len(tokens) : tokens[i] = t})

count_vocab(tokenized) ==
    LET vocabulary == UNION { Range(tokenized[i]) : i \in 1..Len(tokenized) }
    IN  [vocabulary_ |-> vocabulary,
         X |-> [i \in 1..Len(tokenized) |->
                   [t \in vocabulary |-> count(t, tokenized[i])]],
         error |-> IF vocabulary = {} THEN "ValueError" ELSE "none"]

ns_fit_transform(raw_documents) ==
    count_vocab([i \in 1..Len(raw_documents) |-> ns_analyze(raw_documents[i])])

fit_transform(raw_documents) ==
    count_vocab([i \in 1..Len(raw_documents) |-> analyze(raw_documents[i])])

Unfitted == [fitted |-> FALSE, vocabulary_ |-> {}]

-----------------------------------------------------------------------------
(* The cell "Process without Stemming" (lines 76-95) *)

NsLoadBegin ==
    /\ pc = "idle"
    /\ pc' = "ns_load"
    /\ ns_corpus' = <<>>
    /\ ns_label' = <<>>
    /\ ns_pos' = 0
    /\ names' = names \cup {"ns_corpus", "ns_label"}
    /\ UNCHANGED <<archive, ns_preprocessor, ns_preprocessedText, stemvars,
                   clfvars, ns_printed, printed, tokvars>>

NsLoadEntry ==
    /\ pc = "ns_load"
    /\ ns_pos < Len(archive)
    /\ LET info == archive[ns_pos + 1] IN
       IF is_dir(info)
       THEN UNCHANGED <<ns_label, ns_corpus>>
       ELSE /\ ns_label' = Append(ns_label, ns_label_of(info))
            /\ ns_corpus' = Append(ns_corpus, read(info))
    /\ ns_pos' = ns_pos + 1
    /\ UNCHANGED <<archive, pc, names, ns_preprocessor, ns_preprocessedText,
                   stemvars, clfvars, ns_printed, printed, tokvars>>

NsVectorize ==
    /\ pc = "ns_load"
    /\ ns_pos = Len(archive)
    /\ pc' = "idle"
    /\ LET r == ns_fit_transform(ns_corpus) IN
       IF r.error = "none"
       THEN /\ ns_preprocessor' = [fitted |-> TRUE, vocabulary_ |-> r.vocabulary_]
            /\ ns_preprocessedText' = r.X
            /\ names' = names \cup {"ns_preprocessor", "ns_preprocessedText"}
       ELSE /\ ns_preprocessor' = Unfitted
            /\ names' = names \cup {"ns_preprocessor"}
            /\ UNCHANGED ns_preprocessedText
    /\ UNCHANGED <<archive, ns_corpus, ns_label, ns_pos, stemvars, clfvars,
                   ns_printed, printed, tokvars>>

-----------------------------------------------------------------------------
(* The cell "Process with Stemming" (lines 206-226) *)

LoadBegin ==
    /\ pc = "idle"
    /\ pc' = "load"
    /\ corpus' = <<>>
    /\ label' = <<>>
    /\ pos' = 0
    /\ names' = names \cup {"corpus", "label"}
    /\ UNCHANGED <<archive, preprocessor, preprocessedText, nsvars, clfvars,
                   ns_printed, printed, tokvars>>

LoadEntry ==
    /\ pc = "load"
    /\ pos < Len(archive)
    /\ LET info == archive[pos + 1] IN
       IF is_dir(info)
       THEN UNCHANGED <<label, corpus>>
       ELSE /\ label' = Append(label, label_of(info))
            /\ corpus' = Append(corpus, read(info))
    /\ pos' = pos + 1
    /\ UNCHANGED <<archive, pc, names, preprocessor, preprocessedText, nsvars,
                   clfvars, ns_printed, printed, tokvars>>

Vectorize ==
    /\ pc = "load"
    /\ pos = Len(archive)
    /\ pc' = "idle"
    /\ LET r == fit_transform(corpus) IN
       IF r.error = "none"
       THEN /\ preprocessor' = [fitted |-> TRUE, vocabulary_ |-> r.vocabulary_]
            /\ preprocessedText' = r.X
            /\ names' = names \cup {"preprocessor", "preprocessedText"}
       ELSE /\ preprocessor' = Unfitted
            /\ names' = names \cup {"preprocessor"}
            /\ UNCHANGED preprocessedText
    /\ UNCHANGED <<archive, corpus, label, pos, nsvars, clfvars, ns_printed, printed,
                   tokvars>>

-----------------------------------------------------------------------------
(* TfidfTransformer().fit_transform(X): smoothed idf and l2 row norm.  A   *)
(* weight is kept as the numbers its value is computed from: the term's    *)
(* count tf in the document, its document frequency df and the number of   *)
(* documents n, for tf * (ln((1 + n) / (1 + df)) + 1) divided by the       *)
(* row's norm.                                                             *)

document_frequency(X, t) == Cardinality({i \in 1..Len(X) : X[i][t] > 0})

tfidf_weights(X) ==
    [i \in 1..Len(X) |->
        [t \in DOMAIN X[i] |->
            [tf |-> X[i][t], df |-> document_frequency(X, t), n |-> Len(X)]]]

\* a variant that scales the counts where they are stored (copy=False on a
\* float matrix): each count times the whole-number stand-in n - df + 1 of
\* its idf, which like the idf is 1 for a term of every document
tfidf_input_scaled(X) ==
    [i \in 1..Len(X) |->
        [t \in DOMAIN X[i] |->
            X[i][t] * (Len(X) - document_frequency(X, t) + 1)]]

\* the argument after fit_transform has returned: transform works on a
\* float copy (copy=True), the count matrix keeps its counts
tfidf_input_after(X) == X

-----------------------------------------------------------------------------
(* make_pipeline(TruncatedSVD(k, random_state), Normalizer(copy=False))    *)

Min(a, b) == IF a < b THEN a ELSE b

n_features(X) == IF Len(X) = 0 THEN 0 ELSE Cardinality(DOMAIN X[1])

\* TruncatedSVD.fit_transform raises ValueError when n_components exceeds
\* the number of features
svd_error(W, k) == IF k > n_features(W) THEN "ValueError" ELSE "none"

\* row i of the projection: a function of the whole weighted matrix, of
\* which the row keeps its own document's weights, k and the seed
svd_fit_transform(W, k, seed) ==
    [i \in 1..Len(W) |->
        [doc |-> i,
         concepts |-> Min(k, Min(Len(W), n_features(W))),
         random_state |-> seed,
         weights |-> W[i],
         unit_norm |-> FALSE]]

\* Normalizer(copy=False).transform: scales each row of the array it is
\* given, which is the projection, to unit norm in place
normalizer_transform(Z) == [i \in 1..Len(Z) |-> [Z[i] EXCEPT !.unit_norm = TRUE]]

lsa_fit_transform(W, k, seed) == normalizer_transform(svd_fit_transform(W, k, seed))

-----------------------------------------------------------------------------
(* train_test_split(X, y, test_size, random_state) *)

\* ceil(test_size * n_samples), test_size in percent
n_test_of(n, pct) == (pct * n + 99) \div 100

\* RandomState(seed).permutation(n): one permutation fixed by seed and n
permutation(seed, n) == [j \in 1..n |-> ((j - 1 + seed) % n) + 1]

take(X, idx) == [j \in 1..Len(idx) |-> X[idx[j]]]

train_test_split(X, y, pct, seed) ==
    LET n == Len(X)
        n_test == n_test_of(n, pct)
        n_train == n - n_test
        perm == permutation(seed, n)
        ind_test == SubSeq(perm, 1, n_test)
        ind_train == SubSeq(perm, n_test + 1, n)
        bad == Len(y) # n \/ n_train <= 0
    IN  [error |-> IF bad THEN "ValueError" ELSE "none",
         Xtrain |-> IF bad THEN <<>> ELSE take(X, ind_train),
         Xtest |-> IF bad THEN <<>> ELSE take(X, ind_test),
         ytrain |-> IF bad THEN <<>> ELSE take(y, ind_train),
         ytest |-> IF bad THEN <<>> ELSE take(y, ind_test)]

-----------------------------------------------------------------------------
(* RandomForestClassifier(n_estimators, random_state).fit / predict *)

\* a variant that seeds the forest like the split and the decomposition
rf_fit_seed_of_split(n_estimators, seed, X, y) ==
    [n_estimators |-> n_estimators, random_state |-> NsSplitSeed,
     classes_ |-> Range(y), n_samples |-> Len(X)]

rf_fit(n_estimators, seed, X, y) ==
    [n_estimators |-> n_estimators, random_state |-> seed,
     classes_ |-> Range(y), n_samples |-> Len(X)]

\* predict returns, for each row, one of the classes seen in fit; which one
\* is the trees' vote
predictions(rf, X) == [1..Len(X) -> rf.classes_]

-----------------------------------------------------------------------------
(* dmba.classificationSummary(y_true, y_pred): sklearn's confusion_matrix  *)
(* over the labels that occur, accuracy_score, and the accuracy printed    *)
(* with four decimals.                                                     *)

pairs(y_true, y_pred, a, p) ==
    Cardinality({i \in 1..Len(y_true) : y_true[i] = a /\ y_pred[i] = p})

\* a variant that tallies the (actual, predicted) pairs one short
confusion_matrix_short(y_true, y_pred) ==
    [c \in {0, 1} \X {0, 1} |->
        pairs(SubSeq(y_true, 2, Len(y_true)), SubSeq(y_pred, 2, Len(y_pred)),
              c[1], c[2])]

confusion_matrix(y_true, y_pred) ==
    [c \in {0, 1} \X {0, 1} |-> pairs(y_true, y_pred, c[1], c[2])]

\* the number of correct predictions, of which accuracy_score is the share
correct(y_true, y_pred) ==
    Cardinality({i \in 1..Len(y_true) : y_true[i] = y_pred[i]})

\* '{:.4f}'.format(correct / n), in units of 1/10000
format_accuracy(hits, n) == (2 * AccuracyScale * hits + n) \div (2 * n)

classificationSummary(y_true, y_pred) ==
    [labels |-> Range(y_true) \cup Range(y_pred),
     cm |-> confusion_matrix(y_true, y_pred),
     accuracy |-> format_accuracy(correct(y_true, y_pred), Len(y_true))]

NoSummary ==
    [labels |-> {}, cm |-> [c \in {0, 1} \X {0, 1} |-> 0], accuracy |-> 0]

NotRun == [error |-> "not run", stage |-> 0, read |-> {}, summary |-> NoSummary]

-----------------------------------------------------------------------------
(* A classification cell, statement by statement, up to the fit.  `stage`  *)
(* is how far the cell got before it ended or raised:                      *)
(*   1 tfidfTransformer bound          2 tfidf computed                    *)
(*   3 svd, normalizer, lsa bound      4 lsa_tfidf computed                *)
(*   5 split done                      6 forest fitted                     *)
(*   7 summary printed, tfidfTransformer and tfidf computed again          *)

cell_until_fit(Xname, X, k, svd_seed, pct, split_seed, n_est, rf_seed) ==
    LET W == tfidf_weights(X)
        Z == lsa_fit_transform(W, k, svd_seed)
        sp == train_test_split(Z, label, pct, split_seed)
        stage == IF Xname \notin names THEN 1
                 ELSE IF svd_error(W, k) # "none" THEN 3
                 ELSE IF "label" \notin names THEN 4
                 ELSE IF sp.error # "none" THEN 4
                 ELSE 6
        error == IF Xname \notin names THEN "NameError"
                 ELSE IF svd_error(W, k) # "none" THEN "ValueError"
                 ELSE IF "label" \notin names THEN "NameError"
                 ELSE sp.error
    IN  [stage |-> stage,
         error |-> error,
         read |-> IF stage >= 4 THEN {Xname, "label"} ELSE {Xname},
         tfidf |-> IF stage >= 2 THEN W ELSE tfidf,
         X |-> IF stage >= 2 THEN tfidf_input_after(X) ELSE X,
         svd |-> IF stage >= 3
                 THEN [n_components |-> k, random_state |-> svd_seed]
                 ELSE svd,
         lsa_tfidf |-> IF stage >= 4 THEN Z ELSE lsa_tfidf,
         split_args |-> IF stage >= 5
                        THEN [X |-> Xname, y |-> label, test_size |-> pct,
                              random_state |-> split_seed]
                        ELSE split_args,
         Xtrain |-> IF stage >= 5 THEN sp.Xtrain ELSE Xtrain,
         Xtest |-> IF stage >= 5 THEN sp.Xtest ELSE Xtest,
         ytrain |-> IF stage >= 5 THEN sp.ytrain ELSE ytrain,
         ytest |-> IF stage >= 5 THEN sp.ytest ELSE ytest,
         rf_classifier |-> IF stage >= 6
                           THEN rf_fit(n_est, rf_seed, sp.Xtrain, sp.ytrain)
                           ELSE rf_classifier]

\* the names a classification cell has bound when it got as far as `stage`
bound_through(stage) ==
    (IF stage >= 1 THEN {"tfidfTransformer"} ELSE {})
    \cup (IF stage >= 2 THEN {"tfidf"} ELSE {})
    \cup (IF stage >= 3 THEN {"svd", "normalizer", "lsa"} ELSE {})
    \cup (IF stage >= 4 THEN {"lsa_tfidf"} ELSE {})
    \cup (IF stage >= 5 THEN {"Xtrain", "Xtest", "ytrain", "ytest"} ELSE {})
    \cup (IF stage >= 6 THEN {"rf_classifier"} ELSE {})

\* what the cell leaves in its output area
cell_output(r, y_pred) ==
    IF r.stage = 6
    THEN [error |-> "none", stage |-> 7, read |-> r.read,
          summary |-> classificationSummary(r.ytest, y_pred)]
    ELSE [error |-> r.error, stage |-> r.stage, read |-> r.read,
          summary |-> NoSummary]

assign_shared(r) ==
    /\ tfidf' = r.tfidf
    /\ svd' = r.svd
    /\ lsa_tfidf' = r.lsa_tfidf
    /\ split_args' = r.split_args
    /\ Xtrain' = r.Xtrain
    /\ Xtest' = r.Xtest
    /\ ytrain' = r.ytrain
    /\ ytest' = r.ytest
    /\ rf_classifier' = r.rf_classifier
    /\ names' = names \cup bound_through(r.stage)

-----------------------------------------------------------------------------
(* The cell "TF-IDF + LSA without Stemming" (lines 349-369) *)

NsClassifyCell ==
    /\ pc = "idle"
    /\ LET r == cell_until_fit("ns_preprocessedText", ns_preprocessedText,
                               NsNComponents, NsSvdSeed, NsTestSize,
                               NsSplitSeed, NsNEstimators, NsRfSeed)
       IN  /\ assign_shared(r)
           /\ ns_preprocessedText' = r.X
           /\ \E y_pred \in (IF r.stage = 6
                             THEN predictions(r.rf_classifier, r.Xtest)
                             ELSE {<<>>}) :
                  ns_printed' = cell_output(r, y_pred)
    /\ UNCHANGED <<archive, pc, ns_corpus, ns_label, ns_pos, ns_preprocessor,
                   stemvars, printed, tokvars>>

(* The cell "TF-IDF + LSA with Stemming" (lines 402-422) *)

ClassifyCell ==
    /\ pc = "idle"
    /\ LET r == cell_until_fit("preprocessedText", preprocessedText,
                               NComponents, SvdSeed, TestSize, SplitSeed,
                               NEstimators, RfSeed)
       IN  /\ assign_shared(r)
           /\ preprocessedText' = r.X
           /\ \E y_pred \in (IF r.stage = 6
                             THEN predictions(r.rf_classifier, r.Xtest)
                             ELSE {<<>>}) :
                  printed' = cell_output(r, y_pred)
    /\ UNCHANGED <<archive, pc, corpus, label, pos, preprocessor, nsvars,
                   ns_printed, tokvars>>

-----------------------------------------------------------------------------
(* The notebook: the kernel after the first cell (imports, random.seed(10) *)
(* and np.random.seed(10); no later call draws from the global generators, *)
(* each is given its own random_state) has run; the cells then run one at  *)
(* a time, in any order and any number of times.                           *)

NoTokCall ==
    /\ tok_doc = <<>>
    /\ tok_simple = <<>>
    /\ tok_lemma = <<>>
    /\ tok_done = TRUE

Fresh ==
    /\ pc = "idle"
    /\ names = {}
    /\ ns_corpus = <<>> /\ ns_label = <<>> /\ ns_pos = 0
    /\ ns_preprocessor = Unfitted /\ ns_preprocessedText = <<>>
    /\ corpus = <<>> /\ label = <<>> /\ pos = 0
    /\ preprocessor = Unfitted /\ preprocessedText = <<>>
    /\ tfidf = <<>>
    /\ svd = [n_components |-> 0, random_state |-> 0]
    /\ lsa_tfidf = <<>>
    /\ split_args = [X |-> "", y |-> <<>>, test_size |-> 0, random_state |-> 0]
    /\ Xtrain = <<>> /\ Xtest = <<>> /\ ytrain = <<>> /\ ytest = <<>>
    /\ rf_classifier = [n_estimators |-> 0, random_state |-> 0,
                        classes_ |-> {}, n_samples |-> 0]
    /\ ns_printed = NotRun
    /\ printed = NotRun

Init ==
    /\ archive \in Archives
    /\ Fresh
    /\ NoTokCall

Next ==
    \/ NsLoadBegin
    \/ NsLoadEntry
    \/ NsVectorize
    \/ LoadBegin
    \/ LoadEntry
    \/ Vectorize
    \/ NsClassifyCell
    \/ ClassifyCell

Spec == Init /\ [][Next]_vars

-----------------------------------------------------------------------------
(* Direct calls of the tokenizers on one text *)

\* the words the texts handed to the tokenizers are made of
Lexemes ==
    { <<"T","h","e">>, <<"t","h","e">>, <<"c","a","r","s">>,
      <<"s","y","s","t","e","m","s">>, <<"x","8","6">>, <<"4","2">>,
      <<",">>, <<"V","o","l","t","s">>, <<"a","n","d">> }

RECURSIVE join(_)
join(words) ==
    IF words = <<>> THEN <<>>
    ELSE IF Len(words) = 1 THEN words[1]
    ELSE words[1] \o <<" ">> \o join(Tail(words))

WordSeqs(n) == UNION { [1..k -> Lexemes] : k \in 0..n }

Texts == { join(ws) : ws \in WordSeqs(MaxDocWords) }

InitTok ==
    /\ archive = <<>>
    /\ Fresh
    /\ tok_doc \in Texts
    /\ tok_simple = <<>>
    /\ tok_lemma = <<>>
    /\ tok_done = FALSE

CallTokenizers ==
    /\ ~tok_done
    /\ tok_simple' = SimpleTokenizer(tok_doc)
    /\ tok_lemma' = LemmaTokenizer(tok_doc)
    /\ tok_done' = TRUE
    /\ UNCHANGED <<tok_doc, archive, pc, names, nsvars, stemvars, clfvars,
                   ns_printed, printed>>

NextTok == CallTokenizers

SpecTok == InitTok /\ [][NextTok]_vars

-----------------------------------------------------------------------------
(* Properties *)

IsFile(info) == info.filename[Len(info.filename)] # "/"

\* the files among the first k entries of the archive, in archive order
FilesAmong(k) == SelectSeq(SubSeq(archive, 1, k), IsFile)

Files == FilesAmong(Len(archive))

HasMarker(info) == contains(info.filename, Marker)

Tokens == Range(tok_simple) \cup Range(tok_lemma)

\* C1: every token either tokenizer returns is purely alphabetic and is not
\* a member of the stopword set.
C1_TokensAlphabeticNonStop ==
    tok_done => \A t \in Tokens : isalpha(t) /\ t \notin stopWords

\* C2: the stemming tokenizer's result is the stemming function applied to
\* each token of the non-stemming tokenizer's result on the same document,
\* in the same order and with the same length.
C2_LemmaIsStemOfSimple ==
    tok_done =>
        /\ Len(tok_lemma) = Len(tok_simple)
        /\ \A i \in 1..Len(tok_simple) : tok_lemma[i] = stem(tok_simple[i])

\* C3: the vocabulary the vectorizer builds with the stemming tokenizer has
\* at most as many terms as the one it builds from the same corpus with the
\* non-stemming tokenizer (an unfitted vectorizer has built no term).
C3_StemmedVocabularyNoLarger ==
    {"ns_preprocessor", "preprocessor"} \subseteq names =>
        Cardinality(preprocessor.vocabulary_)
            <= Cardinality(ns_preprocessor.vocabulary_)

C3_Witness ==
    /\ ns_preprocessor.fitted
    /\ preprocessor.fitted
    /\ Cardinality(preprocessor.vocabulary_)
           < Cardinality(ns_preprocessor.vocabulary_)
    /\ \E i \in 1..Len(corpus) : \E j \in 1..Len(corpus[i]) :
           latin1_char(corpus[i][j]) \in Uppercase

\* of one load loop: after k entries the two lists are as long as the files
\* among those entries are many, position i holds file i's content, and
\* label i is 1 exactly when file i's pathname contains the marker
LoadLoopInv(documents, labels, k) ==
    LET files == FilesAmong(k) IN
    /\ Len(labels) = Len(documents)
    /\ Len(documents) = Len(files)
    /\ \A i \in 1..Len(files) :
           /\ documents[i] = files[i].content
           /\ labels[i] \in {0, 1}
           /\ labels[i] = 1 <=> HasMarker(files[i])

\* C4: in each load loop, after any number of entries, label list and
\* corpus list have the same length, directories add to neither, and label
\* i is 1 exactly when the pathname of the file at corpus position i
\* contains "rec.autos".
C4_LoadLoops ==
    /\ LoadLoopInv(ns_corpus, ns_label, ns_pos)
    /\ LoadLoopInv(corpus, label, pos)

C4_Witness ==
    /\ pc = "ns_load"
    /\ ns_pos >= 3
    /\ Len(ns_corpus) < ns_pos
    /\ {0, 1} \subseteq Range(ns_label)
    /\ Len(label) = Len(ns_label)

Cells(summary) ==
    summary.cm[<<0, 0>>] + summary.cm[<<0, 1>>]
        + summary.cm[<<1, 0>>] + summary.cm[<<1, 1>>]

Diagonal(summary) == summary.cm[<<0, 0>>] + summary.cm[<<1, 1>>]

Abs(x) == IF x < 0 THEN -x ELSE x

\* the size of the test split: the least whole number that is at least 0.4
\* of the corpus
IsTestSplitOf(t, n) == 10 * t >= 4 * n /\ 10 * (t - 1) < 4 * n

\* of one printed summary: the cells sum to the size of the test split and
\* the accuracy is diagonal / cells to the four decimals printed
SummaryAddsUp(printout) ==
    printout.stage = 7 =>
        /\ IsTestSplitOf(Cells(printout.summary), Len(Files))
        /\ 2 * Abs(10000 * Diagonal(printout.summary)
                   - printout.summary.accuracy * Cells(printout.summary))
               <= Cells(printout.summary)

\* C5: for each configuration the four cells of the confusion matrix sum to
\* the number of documents in the test split, and the reported accuracy is
\* the sum of the diagonal cells divided by the sum of all cells.
C5_ConfusionMatrixAddsUp ==
    /\ SummaryAddsUp(ns_printed)
    /\ SummaryAddsUp(printed)
    /\ "ytest" \in names => Len(ytest) + Len(ytrain) = Len(Files)

C5_Witness ==
    /\ ns_printed.stage = 7
    /\ printed.stage = 7
    /\ Cells(ns_printed.summary) = 2
    /\ Diagonal(ns_printed.summary) = 1
    /\ Len(ytrain) = 2

\* C6 as stated: the seed given to the split, to the truncated SVD and to
\* the random forest is one and the same value.
C6_OneSeedForAllStages ==
    "rf_classifier" \in names =>
        /\ svd.random_state = split_args.random_state
        /\ split_args.random_state = rf_classifier.random_state

\* C6 as amended: in each configuration each stage is given a fixed seed;
\* the split and the truncated SVD are given the same value, 10, and the
\* random forest another, 5.
C6_FixedSeedPerStage ==
    /\ "svd" \in names => svd.random_state = 10
    /\ "lsa_tfidf" \in names =>
           \A i \in 1..Len(lsa_tfidf) : lsa_tfidf[i].random_state = 10
    /\ "Xtrain" \in names => split_args.random_state = 10
    /\ "rf_classifier" \in names => rf_classifier.random_state = 5

C6_Witness ==
    /\ ns_printed.stage = 7
    /\ printed.stage = 7
    /\ rf_classifier.n_samples > 0
    /\ svd.random_state # rf_classifier.random_state

\* the names only the cells of one configuration bind
NsBinds == {"ns_corpus", "ns_label", "ns_preprocessor", "ns_preprocessedText"}

StemBinds == {"corpus", "label", "preprocessor", "preprocessedText"}

\* C7: no variable read by one configuration's run is written by the other
\* configuration's run.
C7_NoSharedState ==
    /\ ns_printed.read \cap StemBinds = {}
    /\ printed.read \cap NsBinds = {}

\* C8: in each configuration the vocabulary and the count matrix are built
\* from the full corpus, one row per file, by the vectorizing step alone:
\* no step of a classification cell (TF-IDF, SVD with in-place
\* normalization, split, fit, predict, summary, the trailing TF-IDF) and no
\* other step changes them.
C8_CountsBuiltOnceAndKept ==
    /\ []("ns_preprocessedText" \in names =>
              /\ Len(ns_preprocessedText) = Len(Files)
              /\ \A i \in 1..Len(ns_preprocessedText) :
                     DOMAIN ns_preprocessedText[i] = ns_preprocessor.vocabulary_)
    /\ []("preprocessedText" \in names =>
              /\ Len(preprocessedText) = Len(Files)
              /\ \A i \in 1..Len(preprocessedText) :
                     DOMAIN preprocessedText[i] = preprocessor.vocabulary_)
    /\ [][ /\ <<ns_preprocessor, ns_preprocessedText>>'
                   # <<ns_preprocessor, ns_preprocessedText>>
               => pc = "ns_load" /\ pc' = "idle"
           /\ <<preprocessor, preprocessedText>>'
                   # <<preprocessor, preprocessedText>>
               => pc = "load" /\ pc' = "idle" ]_vars

C8_Witness ==
    /\ ns_printed.stage = 7
    /\ printed.stage = 7
    /\ Len(ns_preprocessedText) = 3
    /\ \E i \in 1..3 : \E t \in DOMAIN ns_preprocessedText[i] :
           ns_preprocessedText[i][t] = 0
    /\ \E t \in DOMAIN tfidf[1] : tfidf[1][t].df < tfidf[1][t].n

\* C9: an invalid hyperparameter is reported before any computation of the
\* configuration's pipeline: when a classification cell ends in ValueError
\* none of its weighting, decomposition, split or fit steps has run.
C9_ErrorBeforeAnyComputation ==
    /\ ns_printed.error = "ValueError" => ns_printed.stage < 2
    /\ printed.error = "ValueError" => printed.stage < 2

\* C10: the label vector handed to the split of the non-stemmed run (the
\* name `label`) is element for element ns_label, and every feature row of
\* that split is paired with the label of the archive file its document in
\* ns_corpus was read from.  (ns_label is whole unless its load loop is
\* running.)
C10_NsSplitUsesNsLabels ==
    (split_args.X = "ns_preprocessedText" /\ pc # "ns_load") =>
        /\ split_args.y = ns_label
        /\ Len(ns_label) = Len(Files)
        /\ \A j \in 1..Len(Xtrain) :
               /\ ns_corpus[Xtrain[j].doc] = Files[Xtrain[j].doc].content
               /\ ytrain[j] = 1 <=> HasMarker(Files[Xtrain[j].doc])
        /\ \A j \in 1..Len(Xtest) :
               /\ ns_corpus[Xtest[j].doc] = Files[Xtest[j].doc].content
               /\ ytest[j] = 1 <=> HasMarker(Files[Xtest[j].doc])

C10_Witness ==
    /\ split_args.X = "ns_preprocessedText"
    /\ pc = "idle"
    /\ ns_printed.stage = 7
    /\ printed.stage = 0
    /\ {0, 1} \subseteq Range(ytrain)
    /\ Len(Xtest) = 2

====
